---------------------------- MODULE Spec2Model ----------------------------
(***************************************************************************)
(* Product Progress Tracker (src/main.py): the percentage normalizer       *)
(* convert_percentage, the ingestion step process_upload, and the          *)
(* reconciliation pass of main() over the persisted store database.csv.    *)
(*                                                                         *)
(* Numbers: a float is modelled by the integer  value * Scale  with        *)
(* Scale = 10^MaxStrLen, which represents every decimal a string of at     *)
(* most MaxStrLen characters can spell exactly.                            *)
(***************************************************************************)
EXTENDS Integers, Sequences, FiniteSets, TLC

(* ------------------------------ bounds -------------------------------- *)
MaxStrLen == 3
MaxBatch == 2
\* the runs over numeric product numbers: rows of a batch, records of the store
MaxKeyedBatch == 3
MaxRecords == 4

(* --------------------------- number model ----------------------------- *)
RECURSIVE Pow10(_)
Pow10(n) == IF n = 0 THEN 1 ELSE 10 * Pow10(n - 1)

Scale == Pow10(MaxStrLen)

Hundred == 100

\* Num(n) is the float n
Num(n) == n * Scale

(* ------------------------- text, as characters ------------------------ *)
Digits == {"0", "1", "4", "5"}
Alphabet == Digits \cup {".", "%", "-", " ", "a", "b", "c"}

DigitVal(c) == CASE c = "0" -> 0 [] c = "1" -> 1 [] c = "4" -> 4 [] c = "5" -> 5

RECURSIVE StringsUpTo(_)
StringsUpTo(n) ==
    IF n = 0 THEN {<<>>}
    ELSE LET shorter == StringsUpTo(n - 1)
         IN  shorter \cup {Append(s, c) : s \in {t \in shorter : Len(t) = n - 1}, c \in Alphabet}

\* str.strip(): leading and trailing whitespace removed
RECURSIVE LStrip(_)
LStrip(s) == IF Len(s) > 0 /\ s[1] = " " THEN LStrip(Tail(s)) ELSE s

RECURSIVE RStrip(_)
RStrip(s) == IF Len(s) > 0 /\ s[Len(s)] = " " THEN RStrip(SubSeq(s, 1, Len(s) - 1)) ELSE s

Strip(s) == RStrip(LStrip(s))

AllDigits(s) == \A k \in 1..Len(s) : s[k] \in Digits

\* position of the first "." of s, or Len(s)+1
RECURSIVE DotPos(_, _)
DotPos(s, k) == IF k > Len(s) THEN k ELSE IF s[k] = "." THEN k ELSE DotPos(s, k + 1)

IntPart(s) == SubSeq(s, 1, DotPos(s, 1) - 1)
FracPart(s) == SubSeq(s, DotPos(s, 1) + 1, Len(s))

RECURSIVE DigitsValue(_)
DigitsValue(s) == IF Len(s) = 0 THEN 0
                  ELSE 10 * DigitsValue(SubSeq(s, 1, Len(s) - 1)) + DigitVal(s[Len(s)])

\* the float spelled by int-digits [ "." frac-digits ], times Scale
DecimalValue(s) ==
    DigitsValue(IntPart(s)) * Scale
      + DigitsValue(FracPart(s)) * Pow10(MaxStrLen - Len(FracPart(s)))

\* group 1 of the pattern of line 29:  \d+\.?\d*
MatchesGroup(s) ==
    /\ Len(IntPart(s)) >= 1
    /\ AllDigits(IntPart(s))
    /\ AllDigits(FracPart(s))

\* the text left for group 1 once the optional trailing % is taken
PctBody(t) == IF Len(t) > 0 /\ t[Len(t)] = "%" THEN SubSeq(t, 1, Len(t) - 1) ELSE t

\* re.match(r"^(\d+\.?\d*)%?$", progress.strip()) succeeds
ReMatch(s) == MatchesGroup(PctBody(Strip(s)))

\* match.group(1)
ReGroup1(s) == PctBody(Strip(s))

Returned(v) == [raised |-> FALSE, v |-> v]
Raised == [raised |-> TRUE, v |-> 0]

\* float(text): Python accepts surrounding whitespace, a sign, and digits
\* with an optional point on either side; anything else is a ValueError
PyFloatStr(s) ==
    LET t == Strip(s)
        neg == Len(t) > 0 /\ t[1] = "-"
        u == IF neg THEN Tail(t) ELSE t
        wellFormed == /\ AllDigits(IntPart(u))
                      /\ AllDigits(FracPart(u))
                      /\ Len(IntPart(u)) + Len(FracPart(u)) >= 1
    IN  IF wellFormed
        THEN Returned(IF neg THEN 0 - DecimalValue(u) ELSE DecimalValue(u))
        ELSE Raised

(* ------------------------------ cells --------------------------------- *)
\* a value of a DataFrame's progress column: text, a float, or NaN
StrCell(s) == [t |-> "str", s |-> s, v |-> 0]
NumCell(v) == [t |-> "num", s |-> <<>>, v |-> v]
NaNCell == [t |-> "nan", s |-> <<>>, v |-> 0]

\* lines 26-34.  A str that matches returns at line 31; a str that does not
\* match skips the elif and reaches float(progress) at line 34.
convert_percentage(progress) ==
    IF progress.t = "str"
    THEN IF ReMatch(progress.s)
         THEN Returned(DecimalValue(ReGroup1(progress.s)))
         ELSE PyFloatStr(progress.s)
    ELSE IF progress.t = "nan"
         THEN Returned(0)
         ELSE Returned(progress.v)

(* --------------------------- frames and files ------------------------- *)
KEY == "Sub-productNumber"
PROGRESS == "progress"
EXTRA == "note"

\* line 87
required_columns == <<KEY, PROGRESS>>

\* a cell of a column the frame does not have
Absent == "<absent>"
AbsentCell == [t |-> "absent", s |-> <<>>, v |-> 0]
\* NaN in a text column: an empty cell, or a column the record never got
NoVal == "<NaN>"

\* A product number in memory is text, or a number: the int 7 is written
\* "<int 7>" and the float 7.0 "<float 7.0>" here, apart from the texts "7"
\* and "7.0".
IntTexts == {"7"}
FloatTexts == {"7.0"}

IntKey(t) == CASE t = "7" -> "<int 7>"
FloatKey(t) == CASE t \in {"7", "7.0"} -> "<float 7.0>"

\* read_csv's type inference over one column of product numbers (lines 40,
\* 81): int64 when every cell spells an integer, float64 when every cell is
\* a number or empty, and otherwise object, each cell kept as its text
ReadKeyColumn(texts) ==
    LET filled == {k \in 1..Len(texts) : texts[k] # NoVal}
    IN  IF filled # {} /\ filled = 1..Len(texts) /\ \A k \in filled : texts[k] \in IntTexts
        THEN [k \in 1..Len(texts) |-> IntKey(texts[k])]
        ELSE IF filled # {} /\ \A k \in filled : texts[k] \in IntTexts \cup FloatTexts
        THEN [k \in 1..Len(texts) |->
                 IF texts[k] = NoVal THEN NoVal ELSE FloatKey(texts[k])]
        ELSE texts

\* to_csv's text of a product number (line 52)
KeyText(k) == IF k = "<int 7>" THEN "7" ELSE IF k = "<float 7.0>" THEN "7.0" ELSE k

\* iterrows (line 173) hands each row over as one Series: when every column
\* of the frame is numeric, an int product number comes out as a float
Upcast(k) == IF k = "<int 7>" THEN "<float 7.0>" ELSE k

\* the number a numeric product number stands for
KeyNumber(k) == IF k \in {"<int 7>", "<float 7.0>"} THEN "<7>" ELSE k

\* pandas' ==: numbers compare by value, text equals text only, and NaN
\* equals nothing, itself included (line 176)
KeyEq(a, b) == KeyNumber(a) = KeyNumber(b) /\ a # NoVal

\* the product numbers of the uploads (every key cell is filled in)
KeyValues == {"A-1", "B-2"}

\* progress cells an uploaded file is drawn from: text with a percent sign,
\* text that is no number, the upper end of the range, a value above it
ProgressCells ==
    { StrCell(<<"4", "%">>), StrCell(<<"a", "b", "c">>), NumCell(Num(100)),
      NumCell(Num(150)) }

\* progress cells of the ingestion harness: the cells above and a fraction,
\* an empty cell, a negative number, the lower end of the range
IngestCells ==
    ProgressCells \cup
    { StrCell(<<"5", ".", "5">>), NaNCell, NumCell(Num(0 - 5)), NumCell(Num(0)),
      StrCell(<<"-", "5">>) }

ColumnSets ==
    { {KEY, PROGRESS}, {KEY, PROGRESS, EXTRA}, {KEY, EXTRA}, {PROGRESS}, {EXTRA} }

\* the rows of a table with columns cs.  To keep the store small, a table
\* with the extra column speaks of one product only.
RowsOver(cs) ==
    { r \in [ key : IF KEY \in cs THEN KeyValues ELSE {Absent},
              progress : IF PROGRESS \in cs THEN ProgressCells ELSE {AbsentCell},
              extra : IF EXTRA \in cs THEN {"x"} ELSE {Absent} ] :
        (KEY \in cs /\ EXTRA \in cs) => r.key = "A-1" }

RECURSIVE SeqsUpTo(_, _)
SeqsUpTo(S, n) ==
    IF n = 0 THEN {<<>>}
    ELSE LET shorter == SeqsUpTo(S, n - 1)
         IN  shorter \cup {Append(q, x) : q \in {t \in shorter : Len(t) = n - 1}, x \in S}

\* what st.file_uploader hands to main(): nothing, bytes read_csv cannot
\* parse, or a table
NoUpload == [given |-> FALSE, parses |-> FALSE, columns |-> {}, rows |-> <<>>]
Garbage == [given |-> TRUE, parses |-> FALSE, columns |-> {}, rows |-> <<>>]
Tables ==
    UNION { [given : {TRUE}, parses : {TRUE}, columns : {cs},
             rows : SeqsUpTo(RowsOver(cs), MaxBatch)] : cs \in ColumnSets }
Uploads == {NoUpload, Garbage} \cup Tables

VARIABLES
    file,           \* database.csv
    db,             \* main's db: the loaded frame with its is_new column
    uploaded_file,  \* the upload of the current run
    new_data,       \* process_upload's return value
    results,        \* main's results dict
    row_i,          \* position of the for loop of line 173 (1-based)
    pc,             \* "idle": between runs; "rows": in the loop of line 173;
                    \* "done": main() has rendered its last element;
                    \* "ingest": ingestion harness, before the call
    ui,             \* what the run has rendered through st.*, in order
    file_pre,       \* history: database.csv when this run began
    db_pre,         \* history: db as loaded at line 121-123 in this run
    norm_in,        \* normalizer harness: the argument
    norm_out        \* normalizer harness: the outcome of the call

vars == <<file, db, uploaded_file, new_data, results, row_i, pc, ui,
          file_pre, db_pre, norm_in, norm_out>>

Msg(kind, arg) == [kind |-> kind, arg |-> arg]

NoData == [none |-> TRUE, rows |-> <<>>]
Data(rows) == [none |-> FALSE, rows |-> rows]

EmptyResults == [new_products |-> 0, updated_records |-> 0, warnings |-> 0,
                 warning_messages |-> <<>>]

NotCalled == [called |-> FALSE, raised |-> FALSE, v |-> 0]

(* ------------------------------ the store ----------------------------- *)
NoFile == [exists |-> FALSE, readable |-> FALSE, rows |-> <<>>]
CsvFile(rows) == [exists |-> TRUE, readable |-> TRUE, rows |-> rows]
\* zero bytes: read_csv raises EmptyDataError
EmptyBytes == [exists |-> TRUE, readable |-> FALSE, rows |-> <<>>]

\* lines 19-22
init_db(f) == IF ~f.exists THEN CsvFile(<<>>) ELSE f

\* lines 38-46; io_ok: the read itself did not fail.  The result carries
\* whether the except branch ran.
load_db(f, io_ok) ==
    LET conv == [k \in 1..Len(f.rows) |-> convert_percentage(NumCell(f.rows[k].progress))]
        keys == ReadKeyColumn([k \in 1..Len(f.rows) |-> f.rows[k].key])
        failed == \/ ~io_ok
                  \/ ~f.readable
                  \/ \E k \in 1..Len(f.rows) : conv[k].raised
    IN  IF failed
        THEN [failed |-> TRUE, rows |-> <<>>]
        ELSE [failed |-> FALSE,
              rows |-> [k \in 1..Len(f.rows) |->
                          [key |-> keys[k], progress |-> conv[k].v,
                           extra |-> f.rows[k].extra]]]

\* lines 122-123
WithIsNew(rows) ==
    [k \in 1..Len(rows) |->
        [key |-> rows[k].key, progress |-> rows[k].progress,
         extra |-> rows[k].extra, is_new |-> FALSE]]

\* db.drop(columns=['is_new']) written by to_csv (line 200, line 52)
DropIsNew(d) ==
    [k \in 1..Len(d) |->
        [key |-> KeyText(d[k].key), progress |-> d[k].progress, extra |-> d[k].extra]]

(* ----------------------------- ingestion ----------------------------- *)
\* line 88
missing_columns(f) == SelectSeq(required_columns, LAMBDA c : c \notin f.columns)

\* line 81: the product numbers of the uploaded table as read_csv types them
read_keys(f) == ReadKeyColumn([k \in 1..Len(f.rows) |-> f.rows[k].key])

\* convert_percentage over the cells of the uploads, computed once
RECURSIVE ConvertAll(_)
ConvertAll(S) ==
    IF S = {} THEN <<>>
    ELSE LET c == CHOOSE x \in S : TRUE
         IN  (c :> convert_percentage(c)) @@ ConvertAll(S \ {c})

converted_cell == ConvertAll(ProgressCells \cup IngestCells)

\* line 95: the progress column after .apply(convert_percentage)
Converted(f) == [k \in 1..Len(f.rows) |-> converted_cell[f.rows[k].progress]]

\* a range check that takes the ends of the range for invalid
IsInvalid_EndsExcluded(v) == v <= 0 \/ v >= Hundred * Scale

\* line 98 (a converted value is never NaN here: convert_percentage maps NaN to 0.0)
IsInvalid(v) == v < 0 \/ v > Hundred * Scale

invalid_mask(f) == {k \in 1..Len(f.rows) : IsInvalid(Converted(f)[k].v)}

\* process_upload without the return of line 92: the missing columns are
\* reported and the frame is handed on all the same
process_upload_NoReturnOnMissing(f) ==
    IF ~f.given
    THEN [new_data |-> NoData, ui |-> <<>>]
    ELSE IF ~f.parses
    THEN [new_data |-> NoData,
          ui |-> <<Msg("error_processing_file", <<>>), Msg("traceback", <<>>)>>]
    ELSE IF missing_columns(f) # <<>>
    THEN [new_data |->
            Data([k \in 1..Len(f.rows) |->
                    [key |-> read_keys(f)[k], progress |-> 0, extra |-> f.rows[k].extra]]),
          ui |-> <<Msg("error_missing_columns", missing_columns(f))>>]
    ELSE IF \E k \in 1..Len(f.rows) : Converted(f)[k].raised
    THEN [new_data |-> NoData,
          ui |-> <<Msg("error_processing_file", <<>>), Msg("traceback", <<>>)>>]
    ELSE [new_data |->
            Data([k \in 1..Len(f.rows) |->
                    [key |-> read_keys(f)[k],
                     progress |-> IF k \in invalid_mask(f) THEN 0 ELSE Converted(f)[k].v,
                     extra |-> f.rows[k].extra]]),
          ui |-> IF invalid_mask(f) # {}
                 THEN <<Msg("warning_invalid_progress", invalid_mask(f))>>
                 ELSE <<>>]

\* lines 74-111: the returned frame and what was rendered on the way
process_upload(f) ==
    IF ~f.given
    THEN [new_data |-> NoData, ui |-> <<>>]
    ELSE IF ~f.parses
    THEN [new_data |-> NoData,
          ui |-> <<Msg("error_processing_file", <<>>), Msg("traceback", <<>>)>>]
    ELSE IF missing_columns(f) # <<>>
    THEN [new_data |-> NoData,
          ui |-> <<Msg("error_missing_columns", missing_columns(f))>>]
    ELSE IF \E k \in 1..Len(f.rows) : Converted(f)[k].raised
    THEN [new_data |-> NoData,
          ui |-> <<Msg("error_processing_file", <<>>), Msg("traceback", <<>>)>>]
    ELSE [new_data |->
            Data([k \in 1..Len(f.rows) |->
                    [key |-> read_keys(f)[k],
                     progress |-> IF k \in invalid_mask(f) THEN 0 ELSE Converted(f)[k].v,
                     extra |-> f.rows[k].extra]]),
          ui |-> IF invalid_mask(f) # {}
                 THEN <<Msg("warning_invalid_progress", invalid_mask(f))>>
                 ELSE <<>>]

(* ------------------------------- a run -------------------------------- *)
\* lines 119-161: everything main() does before the Process Data button
RunHead(f, io_ok) ==
    LET f1 == init_db(file)
        loaded == load_db(f1, io_ok)
        pu == process_upload(f)
    IN  /\ file' = f1
        /\ file_pre' = file
        /\ db' = WithIsNew(loaded.rows)
        /\ db_pre' = WithIsNew(loaded.rows)
        /\ uploaded_file' = f
        /\ new_data' = pu.new_data
        /\ results' = EmptyResults
        /\ row_i' = 1
        /\ ui' = (IF loaded.failed THEN <<Msg("error_loading_database", <<>>)>> ELSE <<>>)
                   \o pu.ui
                   \o (IF pu.new_data.none THEN <<>>
                       ELSE <<Msg("success_validated", <<>>)>>)
        /\ UNCHANGED <<norm_in, norm_out>>

\* a run that ends without reconciling: no upload, a rejected upload, or
\* the button not clicked (line 163 false)
Rerun ==
    /\ pc = "idle"
    /\ \E f \in Uploads, io_ok \in BOOLEAN :
          /\ RunHead(f, io_ok)
          /\ pc' = "done"

\* a run with the button clicked on a validated upload (line 163 true)
ProcessData ==
    /\ pc = "idle"
    /\ \E f \in Uploads, io_ok \in BOOLEAN :
          /\ ~process_upload(f).new_data.none
          /\ RunHead(f, io_ok)
          /\ pc' = "rows"

\* a lookup that sees only the records the store had before this batch
existing_index_SkipsNewRecords(d, product_num) ==
    {j \in 1..Len(d) : KeyEq(d[j].key, product_num) /\ ~d[j].is_new}

\* line 176
existing_index(d, product_num) == {j \in 1..Len(d) : KeyEq(d[j].key, product_num)}

First(S) == CHOOSE j \in S : \A k \in S : j <= k

InLoop == pc = "rows" /\ row_i <= Len(new_data.rows)

\* line 173: row k of the frame as iterrows yields it
iterrows(nd, k) ==
    IF nd.rows[k].extra = Absent
    THEN [nd.rows[k] EXCEPT !.key = Upcast(@)]
    ELSE nd.rows[k]

CurrentRow == iterrows(new_data, row_i)

\* an insert that keeps the two required columns only
new_row_RequiredColumnsOnly(row) ==
    [key |-> row.key, progress |-> row.progress, extra |-> NoVal, is_new |-> TRUE]

\* lines 180-181: the row as a dict, plus is_new; a column the row lacks is NaN
new_row(row) ==
    [key |-> row.key, progress |-> row.progress,
     extra |-> IF row.extra = Absent THEN NoVal ELSE row.extra,
     is_new |-> TRUE]

\* an update without line 191: is_new is left as it was
updated_record_KeepsIsNew(old, row) ==
    [key |-> row.key, progress |-> row.progress,
     extra |-> IF row.extra = Absent THEN old.extra ELSE row.extra,
     is_new |-> old.is_new]

\* lines 190-191: the row's columns overwrite the record's, is_new cleared
updated_record(old, row) ==
    [key |-> row.key, progress |-> row.progress,
     extra |-> IF row.extra = Absent THEN old.extra ELSE row.extra,
     is_new |-> FALSE]

\* line 194
warning_msg(product_num, new_progress, old_progress) ==
    [product |-> product_num, progress |-> new_progress, existing |-> old_progress]

\* a comparison that lets equal progress through
IsProgressGreater_OrEqual(new_progress, old_progress) == new_progress >= old_progress

\* line 188
IsProgressGreater(new_progress, old_progress) == new_progress > old_progress

\* an insert that leaves the count of new products as it was
InsertRow_Uncounted ==
    /\ InLoop
    /\ existing_index(db, CurrentRow.key) = {}
    /\ db' = Append(db, new_row(CurrentRow))
    /\ row_i' = row_i + 1
    /\ UNCHANGED <<file, uploaded_file, new_data, results, pc, ui, file_pre, db_pre,
                   norm_in, norm_out>>

\* lines 178-183
InsertRow ==
    /\ InLoop
    /\ existing_index(db, CurrentRow.key) = {}
    /\ db' = Append(db, new_row(CurrentRow))
    /\ results' = [results EXCEPT !.new_products = @ + 1]
    /\ row_i' = row_i + 1
    /\ UNCHANGED <<file, uploaded_file, new_data, pc, ui, file_pre, db_pre,
                   norm_in, norm_out>>

\* lines 184-192
UpdateRow ==
    /\ InLoop
    /\ existing_index(db, CurrentRow.key) # {}
    /\ LET j == First(existing_index(db, CurrentRow.key))
       IN  /\ IsProgressGreater(CurrentRow.progress, db[j].progress)
           /\ db' = [db EXCEPT ![j] = updated_record(db[j], CurrentRow)]
    /\ results' = [results EXCEPT !.updated_records = @ + 1]
    /\ row_i' = row_i + 1
    /\ UNCHANGED <<file, uploaded_file, new_data, pc, ui, file_pre, db_pre,
                   norm_in, norm_out>>

\* a rejection that flags the record it was compared with as new
RejectRow_FlagsRecord ==
    /\ InLoop
    /\ existing_index(db, CurrentRow.key) # {}
    /\ LET j == First(existing_index(db, CurrentRow.key))
       IN  /\ ~IsProgressGreater(CurrentRow.progress, db[j].progress)
           /\ db' = [db EXCEPT ![j].is_new = TRUE]
           /\ results' =
                [results EXCEPT
                    !.warning_messages =
                        Append(@, warning_msg(CurrentRow.key, CurrentRow.progress,
                                              db[j].progress)),
                    !.warnings = @ + 1]
    /\ row_i' = row_i + 1
    /\ UNCHANGED <<file, uploaded_file, new_data, pc, ui, file_pre, db_pre,
                   norm_in, norm_out>>

\* lines 184-188, 193-196
RejectRow ==
    /\ InLoop
    /\ existing_index(db, CurrentRow.key) # {}
    /\ LET j == First(existing_index(db, CurrentRow.key))
       IN  /\ ~IsProgressGreater(CurrentRow.progress, db[j].progress)
           /\ results' =
                [results EXCEPT
                    !.warning_messages =
                        Append(@, warning_msg(CurrentRow.key, CurrentRow.progress,
                                              db[j].progress)),
                    !.warnings = @ + 1]
    /\ row_i' = row_i + 1
    /\ UNCHANGED <<file, db, uploaded_file, new_data, pc, ui, file_pre, db_pre,
                   norm_in, norm_out>>

LoopDone == pc = "rows" /\ row_i > Len(new_data.rows)

\* lines 199-235: to_csv succeeded, then the summary is rendered
SaveOk ==
    /\ LoopDone
    /\ file' = CsvFile(DropIsNew(db))
    /\ ui' = ui \o <<Msg("success_complete", <<>>),
                     Msg("metrics", <<results.new_products, results.updated_records,
                                      results.warnings>>),
                     Msg("warning_details", results.warning_messages)>>
    /\ pc' = "done"
    /\ UNCHANGED <<db, uploaded_file, new_data, results, row_i, file_pre, db_pre,
                   norm_in, norm_out>>

\* what database.csv can hold once to_csv has raised: the old bytes (the open
\* failed), nothing (opened for writing, nothing flushed), or the header and
\* all rows but the last (the write failed part-way)
FailedWrite(old, rows) ==
    {old, EmptyBytes} \cup {CsvFile(SubSeq(rows, 1, n)) : n \in {Len(rows) - 1} \ {0 - 1}}

\* lines 53-55 and 237-239: to_csv raised
SaveFail ==
    /\ LoopDone
    /\ file' \in FailedWrite(file, DropIsNew(db))
    /\ ui' = ui \o <<Msg("error_saving_database", <<>>),
                     Msg("error_failed_to_save", <<>>), Msg("traceback", <<>>)>>
    /\ pc' = "done"
    /\ UNCHANGED <<db, uploaded_file, new_data, results, row_i, file_pre, db_pre,
                   norm_in, norm_out>>

\* main() returns: its locals and the rendered page are gone, database.csv
\* stays (line 243; every interaction runs main() afresh)
Return ==
    /\ pc = "done"
    /\ pc' = "idle"
    /\ db' = <<>>
    /\ uploaded_file' = NoUpload
    /\ new_data' = NoData
    /\ results' = EmptyResults
    /\ row_i' = 1
    /\ ui' = <<>>
    /\ file_pre' = NoFile
    /\ db_pre' = <<>>
    /\ UNCHANGED <<file, norm_in, norm_out>>

Init ==
    /\ file = NoFile
    /\ db = <<>>
    /\ uploaded_file = NoUpload
    /\ new_data = NoData
    /\ results = EmptyResults
    /\ row_i = 1
    /\ pc = "idle"
    /\ ui = <<>>
    /\ file_pre = NoFile
    /\ db_pre = <<>>
    /\ norm_in = NaNCell
    /\ norm_out = NotCalled

Next ==
    \/ Rerun
    \/ ProcessData
    \/ InsertRow
    \/ UpdateRow
    \/ RejectRow
    \/ SaveOk
    \/ SaveFail
    \/ Return

Spec == Init /\ [][Next]_vars

(* -------------------------- ingestion harness ------------------------- *)
\* tables with both required columns over the wider set of cells
IngestTables ==
    [given : {TRUE}, parses : {TRUE}, columns : {{KEY, PROGRESS}},
     rows : SeqsUpTo([key : {"A-1"}, progress : IngestCells, extra : {Absent}],
                     MaxBatch)]

\* one call process_upload(uploaded_file), lines 152-155
Ingest ==
    /\ pc = "ingest"
    /\ new_data' = process_upload(uploaded_file).new_data
    /\ ui' = process_upload(uploaded_file).ui
               \o (IF process_upload(uploaded_file).new_data.none THEN <<>>
                   ELSE <<Msg("success_validated", <<>>)>>)
    /\ pc' = "done"
    /\ UNCHANGED <<file, db, uploaded_file, results, row_i, file_pre, db_pre,
                   norm_in, norm_out>>

InitIngest ==
    /\ file = NoFile
    /\ db = <<>>
    /\ uploaded_file \in IngestTables
    /\ new_data = NoData
    /\ results = EmptyResults
    /\ row_i = 1
    /\ pc = "ingest"
    /\ ui = <<>>
    /\ file_pre = NoFile
    /\ db_pre = <<>>
    /\ norm_in = NaNCell
    /\ norm_out = NotCalled

NextIngest == Ingest

SpecIngest == InitIngest /\ [][NextIngest]_vars

(* ------------------------- normalizer harness ------------------------- *)
NormInputs ==
    {StrCell(s) : s \in StringsUpTo(MaxStrLen)}
      \cup {NaNCell}
      \cup {NumCell(Num(n)) : n \in {0 - 5, 0, 4, 100, 150}}

\* one call convert_percentage(norm_in)
Normalize ==
    /\ ~norm_out.called
    /\ norm_out' = [called |-> TRUE,
                    raised |-> convert_percentage(norm_in).raised,
                    v |-> convert_percentage(norm_in).v]
    /\ UNCHANGED <<file, db, uploaded_file, new_data, results, row_i, pc, ui,
                   file_pre, db_pre, norm_in>>

InitNorm ==
    /\ file = NoFile
    /\ db = <<>>
    /\ uploaded_file = NoUpload
    /\ new_data = NoData
    /\ results = EmptyResults
    /\ row_i = 1
    /\ pc = "idle"
    /\ ui = <<>>
    /\ file_pre = NoFile
    /\ db_pre = <<>>
    /\ norm_in \in NormInputs
    /\ norm_out = NotCalled

NextNorm == Normalize

SpecNorm == InitNorm /\ [][NextNorm]_vars

(* ------------------- runs over numeric product numbers ---------------- *)
\* product numbers as the cells of an uploaded file spell them: a number and
\* a text
KeyTexts == {"7", "A"}

KeyedCells == {StrCell(<<"4", "%">>), NumCell(Num(100))}

\* validated tables of the two required columns
KeyedUploads ==
    [given : {TRUE}, parses : {TRUE}, columns : {{KEY, PROGRESS}},
     rows : SeqsUpTo([key : KeyTexts, progress : KeyedCells, extra : {Absent}],
                     MaxKeyedBatch)]

\* one run of main() on such a table, with the button clicked or not; the
\* store is kept to MaxRecords records
KeyedRun ==
    /\ pc = "idle"
    /\ \E f \in KeyedUploads, io_ok \in BOOLEAN, click \in BOOLEAN :
          /\ Len(file.rows) + Len(f.rows) <= MaxRecords
          /\ RunHead(f, io_ok)
          /\ pc' = IF click THEN "rows" ELSE "done"

NextKeys ==
    \/ KeyedRun
    \/ InsertRow
    \/ UpdateRow
    \/ RejectRow
    \/ SaveOk
    \/ SaveFail
    \/ Return

SpecKeys == Init /\ [][NextKeys]_vars

(* ----------------------------- vocabulary ----------------------------- *)
HasMsg(kind) == \E k \in 1..Len(ui) : ui[k].kind = kind

MsgPos(kind) == CHOOSE k \in 1..Len(ui) : ui[k].kind = kind

\* the records a load would find, and whether a load can succeed
Loadable(f) == ~f.exists \/ f.readable

SameStore(f, g) == f.rows = g.rows /\ Loadable(f) = Loadable(g)

\* the rows the warning of lines 101-103 lists
FlaggedRows ==
    IF HasMsg("warning_invalid_progress")
    THEN ui[MsgPos("warning_invalid_progress")].arg
    ELSE {}

RunStarted == pc \in {"rows", "done"}

(* ------------------------------ C9 ------------------------------------ *)
(* C9: convert_percentage never raises, whatever its argument: text that   *)
(* matches the percentage pattern yields the number it spells, text that   *)
(* does not match the pattern yields 0.0, and a missing value yields 0.0.  *)
C9_NormalizerNeverRaises ==
    norm_out.called =>
        /\ ~norm_out.raised
        /\ (norm_in.t = "str" /\ ReMatch(norm_in.s))
              => norm_out.v = DecimalValue(ReGroup1(norm_in.s))
        /\ (norm_in.t = "str" /\ ~ReMatch(norm_in.s)) => norm_out.v = 0
        /\ norm_in.t = "nan" => norm_out.v = 0

Offending(cell) ==
    convert_percentage(cell).raised \/ convert_percentage(cell).v < 0
        \/ convert_percentage(cell).v > Num(100)

(* C8: a table that has both required columns is never rejected for a bad  *)
(* progress cell: process_upload returns all of its rows, no error is      *)
(* rendered, and each row with an unparseable or out-of-range cell has     *)
(* progress 0 and is listed in the warning.                                *)
C8_BadCellsAreCoerced ==
    (RunStarted /\ uploaded_file.given /\ uploaded_file.parses
       /\ {KEY, PROGRESS} \subseteq uploaded_file.columns) =>
        /\ ~new_data.none
        /\ ~HasMsg("error_processing_file")
        /\ Len(new_data.rows) = Len(uploaded_file.rows)
        /\ \A k \in 1..Len(new_data.rows) :
              Offending(uploaded_file.rows[k].progress)
                 => (new_data.rows[k].progress = 0 /\ k \in FlaggedRows)

(* ------------------------------ C7 ------------------------------------ *)
(* C7: when the upload cannot be parsed or lacks a required column,        *)
(* process_upload returns None, an error is rendered (for missing columns  *)
(* it names exactly the missing ones), the run ends without reconciling a  *)
(* row or reporting success, and db and database.csv hold what they held   *)
(* when the run had loaded them.                                           *)
C7_BadBatchRejectedWholesale ==
    (RunStarted /\ uploaded_file.given
       /\ (~uploaded_file.parses \/ ~({KEY, PROGRESS} \subseteq uploaded_file.columns))) =>
        /\ new_data.none
        /\ pc = "done"
        /\ results = EmptyResults
        /\ ~HasMsg("success_validated")
        /\ ~HasMsg("success_complete")
        /\ ~uploaded_file.parses => HasMsg("error_processing_file")
        /\ uploaded_file.parses =>
              /\ HasMsg("error_missing_columns")
              /\ ui[MsgPos("error_missing_columns")].arg =
                    SelectSeq(<<KEY, PROGRESS>>, LAMBDA c : c \notin uploaded_file.columns)
        /\ db = db_pre
        /\ SameStore(file, file_pre)

\* a table without its progress column met a store of one record or more
C7_Witness ==
    /\ pc = "done"
    /\ uploaded_file.given
    /\ uploaded_file.parses
    /\ PROGRESS \notin uploaded_file.columns
    /\ Len(uploaded_file.rows) > 0
    /\ Len(db) > 0
    /\ new_data.none

(* ------------------------ reconciliation vocabulary ------------------- *)
\* where the store holds key k, and the first such place
KeyPositions(d, k) == {n \in 1..Len(d) : d[n].key = k}

FirstPos(d, k) == CHOOSE n \in KeyPositions(d, k) : \A m \in KeyPositions(d, k) : n <= m

\* the loop of line 173 is about to take a row whose key the store holds
RowFound == InLoop /\ KeyPositions(db, CurrentRow.key) # {}

StoredProgress == db[FirstPos(db, CurrentRow.key)].progress

CountsStep(dn, du, dw) ==
    /\ results'.new_products = results.new_products + dn
    /\ results'.updated_records = results.updated_records + du
    /\ results'.warnings = results.warnings + dw

(* ------------------------------ C1 ------------------------------------ *)
(* C1: over any sequence of runs, the progress database.csv holds for a    *)
(* key never decreases: whenever a key is in the file before and after a   *)
(* step, its progress after the step is at least its progress before.      *)
C1_ProgressNeverDecreases ==
    [][\A i \in 1..Len(file.rows), j \in 1..Len(file'.rows) :
          file.rows[i].key = file'.rows[j].key
             => file'.rows[j].progress >= file.rows[i].progress]_vars

\* what does hold of the code: a run whose load_db succeeded never lowers
\* the progress database.csv holds for a key
LoadedRunsNeverLowerProgress ==
    [][~HasMsg("error_loading_database") =>
          \A i \in 1..Len(file.rows), j \in 1..Len(file'.rows) :
              file.rows[i].key = file'.rows[j].key
                 => file'.rows[j].progress >= file.rows[i].progress]_vars

\* and the loop of line 173 never lowers the progress of a record of db
LoopNeverLowersProgress ==
    [][(pc = "rows" /\ pc' = "rows") =>
          \A n \in 1..Len(db) :
              db'[n].key = db[n].key /\ db'[n].progress >= db[n].progress]_vars

(* ------------------------------ C2 ------------------------------------ *)
(* C2: when the loop takes a row whose key the store holds with progress   *)
(* at least the row's (equal included), the step leaves db and             *)
(* database.csv exactly as they were, appends one message naming the key,  *)
(* the row's progress and the stored progress, and adds one to the         *)
(* rejection count and nothing to the other counts.                        *)
C2_RejectLeavesStoreUnchanged ==
    [][(RowFound /\ CurrentRow.progress <= StoredProgress) =>
          /\ db' = db
          /\ file' = file
          /\ results'.warning_messages =
                Append(results.warning_messages,
                       [product |-> CurrentRow.key, progress |-> CurrentRow.progress,
                        existing |-> StoredProgress])
          /\ CountsStep(0, 0, 1)]_vars

\* a row with exactly the stored progress has just been rejected, in a store
\* of two records
C2_Witness ==
    /\ pc = "rows"
    /\ row_i > 1
    /\ Len(db) = 2
    /\ results.warnings >= 1
    /\ LET m == results.warning_messages[Len(results.warning_messages)]
       IN  /\ m.product = new_data.rows[row_i - 1].key
           /\ m.progress = m.existing
           /\ m.progress > 0

(* ------------------------------ C3 ------------------------------------ *)
(* C3: when the loop takes a row whose key the store holds with progress   *)
(* strictly below the row's, the step sets that record's progress to the   *)
(* row's, clears its is_new, adds one to the update count and nothing to   *)
(* the other counts, records no rejection, and changes no other record.    *)
C3_UpdateOverwritesOneRecord ==
    [][(RowFound /\ CurrentRow.progress > StoredProgress) =>
          LET j == FirstPos(db, CurrentRow.key)
          IN  /\ Len(db') = Len(db)
              /\ db'[j].key = CurrentRow.key
              /\ db'[j].progress = CurrentRow.progress
              /\ db'[j].is_new = FALSE
              /\ \A n \in 1..Len(db) : n # j => db'[n] = db[n]
              /\ results'.warning_messages = results.warning_messages
              /\ CountsStep(0, 1, 0)]_vars

\* the row just taken updated a record inserted earlier in the same batch,
\* next to another record
C3_Witness ==
    /\ pc = "rows"
    /\ row_i > 2
    /\ results.updated_records = 1
    /\ results.new_products = 1
    /\ Len(db) = 2
    /\ new_data.rows[1].key = new_data.rows[2].key
    /\ LET j == FirstPos(db, new_data.rows[2].key)
       IN  /\ db[j].progress = new_data.rows[2].progress
           /\ ~db[j].is_new

(* ------------------------------ C4 ------------------------------------ *)
(* C4: when the loop takes a row whose key the store does not hold, the    *)
(* step appends one record with the row's key, progress and every other    *)
(* column of the row, flagged new, adds one to the insert count and        *)
(* nothing to the other counts, and leaves the earlier records as they     *)
(* were.                                                                   *)
C4_InsertAppendsWholeRow ==
    [][(InLoop /\ KeyPositions(db, CurrentRow.key) = {}) =>
          /\ Len(db') = Len(db) + 1
          /\ db'[Len(db')].key = CurrentRow.key
          /\ db'[Len(db')].progress = CurrentRow.progress
          /\ CurrentRow.extra # Absent => db'[Len(db')].extra = CurrentRow.extra
          /\ db'[Len(db')].is_new = TRUE
          /\ \A n \in 1..Len(db) : db'[n] = db[n]
          /\ results'.warning_messages = results.warning_messages
          /\ CountsStep(1, 0, 0)]_vars

\* a row with an extra column has just been inserted behind a loaded record
C4_Witness ==
    /\ pc = "rows"
    /\ row_i > 1
    /\ Len(db_pre) = 1
    /\ Len(db) = 2
    /\ results.new_products = 1
    /\ db[1] = db_pre[1]
    /\ db[2].key = new_data.rows[row_i - 1].key
    /\ db[2].extra = "x"
    /\ db[2].is_new

(* ------------------------------ C5 ------------------------------------ *)
\* the messages of the rejections of key k
MessagesFor(k) == SelectSeq(results.warning_messages, LAMBDA m : m.product = k)

(* C5: rows are reconciled in batch order against the store as the earlier *)
(* rows left it.  At the end of the loop, for a key the loaded store did   *)
(* not hold and the batch names exactly twice, with progress p1 then p2:   *)
(* the store holds one record of the key; if p2 > p1 its progress is p2,   *)
(* its is_new is cleared and no rejection names the key (one insert and    *)
(* one update when these are the only rows); if p2 <= p1 its progress is   *)
(* p1 and exactly one rejection names the key, with p2 against p1 (one     *)
(* insert and one rejection when these are the only rows).                 *)
C5_InBatchSequencing ==
    LoopDone =>
        \A i, j \in 1..Len(new_data.rows) :
            LET rows == new_data.rows
                k == rows[i].key
                p1 == rows[i].progress
                p2 == rows[j].progress
            IN  (/\ i < j
                 /\ KeyPositions(rows, k) = {i, j}
                 /\ KeyPositions(db_pre, k) = {}) =>
                    /\ Cardinality(KeyPositions(db, k)) = 1
                    /\ p2 > p1 =>
                          /\ db[FirstPos(db, k)].progress = p2
                          /\ ~db[FirstPos(db, k)].is_new
                          /\ MessagesFor(k) = <<>>
                          /\ Len(rows) = 2 =>
                                /\ results.new_products = 1
                                /\ results.updated_records = 1
                                /\ results.warnings = 0
                    /\ p2 <= p1 =>
                          /\ db[FirstPos(db, k)].progress = p1
                          /\ MessagesFor(k) =
                                <<[product |-> k, progress |-> p2, existing |-> p1]>>
                          /\ Len(rows) = 2 =>
                                /\ results.new_products = 1
                                /\ results.updated_records = 0
                                /\ results.warnings = 1

\* the loop has ended on a batch naming a new key twice, the second time
\* with more progress
C5_Witness ==
    /\ LoopDone
    /\ Len(new_data.rows) = 2
    /\ new_data.rows[1].key = new_data.rows[2].key
    /\ KeyPositions(db_pre, new_data.rows[1].key) = {}
    /\ Len(db_pre) = 1
    /\ new_data.rows[2].progress > new_data.rows[1].progress
    /\ results.updated_records = 1

(* ------------------------------ C6 ------------------------------------ *)
(* C6: at the end of a run, the completion message and the counts are on   *)
(* the page only if database.csv holds the merged store; and if the save   *)
(* failed, an error and no completion message is on the page and           *)
(* database.csv holds what it held when the run began.                     *)
C6_NoSuccessBeforePersistence ==
    pc = "done" =>
        /\ (HasMsg("success_complete") \/ HasMsg("metrics")) =>
              /\ file = CsvFile(DropIsNew(db))
              /\ ~HasMsg("error_failed_to_save")
        /\ HasMsg("error_saving_database") =>
              /\ HasMsg("error_failed_to_save")
              /\ ~HasMsg("success_complete")
              /\ ~HasMsg("metrics")
              /\ SameStore(file, file_pre)


\* what does hold of the code: the completion message and the counts are
\* rendered only by a run whose save succeeded, and a failed save renders
\* its errors and neither of them
SuccessOnlyAfterSave ==
    pc = "done" =>
        /\ (HasMsg("success_complete") \/ HasMsg("metrics")) =>
              /\ file = CsvFile(DropIsNew(db))
              /\ ~HasMsg("error_failed_to_save")
        /\ HasMsg("error_saving_database") =>
              /\ HasMsg("error_failed_to_save")
              /\ ~HasMsg("success_complete")
              /\ ~HasMsg("metrics")

(* ------------------------------ C11 ----------------------------------- *)
\* two product numbers database.csv spells alike
SameKey(a, b) == KeyText(a) = KeyText(b)

InRange(p) == p >= 0 /\ p <= Num(100)

(* C11: in every state reached from the empty store, no two records of     *)
(* database.csv have the same product number and no two records of db do,  *)
(* and every progress of database.csv and of db lies in 0..100.            *)
C11_StoreInvariant ==
    /\ \A i, j \in 1..Len(file.rows) :
          i # j => ~SameKey(file.rows[i].key, file.rows[j].key)
    /\ \A i \in 1..Len(file.rows) : InRange(file.rows[i].progress)
    /\ \A i, j \in 1..Len(db) : i # j => ~SameKey(db[i].key, db[j].key)
    /\ \A i \in 1..Len(db) : InRange(db[i].progress)

\* what does hold of the code: every stored progress lies in 0..100
StoredProgressInRange ==
    /\ \A i \in 1..Len(file.rows) : InRange(file.rows[i].progress)
    /\ \A i \in 1..Len(db) : InRange(db[i].progress)

\* and product numbers that are text in every upload stay unique
StoredKeysUnique ==
    /\ \A i, j \in 1..Len(file.rows) :
          i # j => ~SameKey(file.rows[i].key, file.rows[j].key)
    /\ \A i, j \in 1..Len(db) : i # j => ~SameKey(db[i].key, db[j].key)

(* ------------------------------ C12 ----------------------------------- *)
(* C12: when the loop takes a row whose key the store holds with progress  *)
(* strictly below the row's, the record after the step holds the row's     *)
(* value in every column the row has and no value in a column the row      *)
(* lacks, whatever the record held there before.                           *)
C12_UpdatedRecordHasRowShape ==
    [][(RowFound /\ CurrentRow.progress > StoredProgress) =>
          LET j == FirstPos(db, CurrentRow.key)
          IN  /\ db'[j].key = CurrentRow.key
              /\ db'[j].progress = CurrentRow.progress
              /\ CurrentRow.extra # Absent => db'[j].extra = CurrentRow.extra
              /\ CurrentRow.extra = Absent => db'[j].extra = NoVal]_vars

\* what does hold of the code: the updated record takes the row's value in
\* every column the row has and keeps its own in a column the row lacks
UpdateKeepsColumnsTheRowLacks ==
    [][(RowFound /\ CurrentRow.progress > StoredProgress) =>
          LET j == FirstPos(db, CurrentRow.key)
          IN  /\ db'[j].key = CurrentRow.key
              /\ db'[j].progress = CurrentRow.progress
              /\ CurrentRow.extra # Absent => db'[j].extra = CurrentRow.extra
              /\ CurrentRow.extra = Absent => db'[j].extra = db[j].extra]_vars

(* ------------------------------ C13 ----------------------------------- *)
(* C13: over any sequence of runs, failed loads and failed saves included, *)
(* every product number database.csv holds before a step it still holds    *)
(* after the step.                                                         *)
C13_RecordsNeverRemoved ==
    [][\A i \in 1..Len(file.rows) :
          \E j \in 1..Len(file'.rows) : file'.rows[j].key = file.rows[i].key]_vars

\* what does hold of the code: a run whose load and whose save succeeded
\* removes no product number from database.csv
LoadedSavedRunsKeepRecords ==
    [][(~HasMsg("error_loading_database") /\ ~HasMsg("error_saving_database")') =>
          \A i \in 1..Len(file.rows) :
              \E j \in 1..Len(file'.rows) : file'.rows[j].key = file.rows[i].key]_vars

(* ------------------------------ C14 ----------------------------------- *)
(* C14: once a run has saved, loading database.csv yields as many records  *)
(* as db held at the save, each with the product number (as the lookup of  *)
(* line 176 compares them) and the progress of the record of db at its     *)
(* place; database.csv holds no is_new, and every loaded record starts the *)
(* next run with is_new false.                                             *)
C14_SaveLoadRoundTrip ==
    (pc = "done" /\ HasMsg("success_complete")) =>
        LET loaded == load_db(init_db(file), TRUE)
            next_db == WithIsNew(loaded.rows)
        IN  /\ ~loaded.failed
            /\ Len(next_db) = Len(db)
            /\ \A n \in 1..Len(db) :
                  /\ KeyEq(next_db[n].key, db[n].key)
                  /\ next_db[n].progress = db[n].progress
                  /\ ~next_db[n].is_new
            /\ \A n \in 1..Len(file.rows) : "is_new" \notin DOMAIN file.rows[n]

\* what does hold of the code: the count, the progress values and the
\* cleared is_new of the round trip
RoundTripOfProgress ==
    (pc = "done" /\ HasMsg("success_complete")) =>
        LET loaded == load_db(init_db(file), TRUE)
            next_db == WithIsNew(loaded.rows)
        IN  /\ ~loaded.failed
            /\ Len(next_db) = Len(db)
            /\ \A n \in 1..Len(db) :
                  /\ next_db[n].progress = db[n].progress
                  /\ ~next_db[n].is_new
            /\ \A n \in 1..Len(file.rows) : "is_new" \notin DOMAIN file.rows[n]

(* ------------------------------ C15 ----------------------------------- *)
(* C15: within a run is_new moves one way.  While the loop runs, a record  *)
(* with is_new true is one the loop has appended in this run; no step of   *)
(* the loop turns the is_new of a record from false to true; and a record  *)
(* a step of the loop changes (an update) has is_new false after the step. *)
C15_NewFlagIsOneWay ==
    [][/\ pc' = "rows" =>
             \A n \in 1..Len(db') : db'[n].is_new => n > Len(db_pre')
       /\ pc = "rows" =>
             /\ Len(db') >= Len(db)
             /\ \A n \in 1..Len(db) :
                   /\ ~db[n].is_new => ~db'[n].is_new
                   /\ db'[n] # db[n] => ~db'[n].is_new]_vars

\* a batch of three rows of one product number, new to the store: the first
\* inserted it, the second updated it, and the third has been rejected with
\* the record's is_new still false
C15_Witness ==
    /\ pc = "rows"
    /\ row_i = 4
    /\ Len(db_pre) = 1
    /\ Len(db) = 2
    /\ results.new_products = 1
    /\ results.updated_records = 1
    /\ results.warnings = 1
    /\ new_data.rows[2].progress > new_data.rows[1].progress
    /\ results.warning_messages[1].progress = new_data.rows[3].progress
    /\ db[2].progress = new_data.rows[2].progress
    /\ ~db[2].is_new
    /\ ~db[1].is_new

(* ------------------------------ C16 ----------------------------------- *)
\* msgs name rows among rows k..last of the frame, in the order of the rows,
\* no row twice
RECURSIVE InRowOrder(_, _, _, _)
InRowOrder(msgs, nd, k, last) ==
    IF msgs = <<>> THEN TRUE
    ELSE IF k > last THEN FALSE
    ELSE IF /\ msgs[1].product = iterrows(nd, k).key
            /\ msgs[1].progress = iterrows(nd, k).progress
         THEN InRowOrder(Tail(msgs), nd, k + 1, last)
         ELSE InRowOrder(msgs, nd, k + 1, last)

CountSum == results.new_products + results.updated_records + results.warnings

(* C16: throughout a run the three counts add up to the number of rows the *)
(* loop has taken, which at the end of the loop is the number of rows of   *)
(* the batch; there are as many rejection messages as the rejection count  *)
(* says, naming rows of the batch in the order of the rows; db has grown   *)
(* by exactly the count of new products; and the counts on the page are    *)
(* these counts.                                                           *)
C16_ResultAccounting ==
    RunStarted =>
        /\ CountSum = row_i - 1
        /\ (LoopDone \/ HasMsg("metrics")) => CountSum = Len(new_data.rows)
        /\ Len(results.warning_messages) = results.warnings
        /\ InRowOrder(results.warning_messages, new_data, 1, row_i - 1)
        /\ Len(db) = Len(db_pre) + results.new_products
        /\ HasMsg("metrics") =>
              ui[MsgPos("metrics")].arg =
                 <<results.new_products, results.updated_records, results.warnings>>

\* a saved run over a batch of two rows: one inserted, one rejected
C16_Witness ==
    /\ pc = "done"
    /\ HasMsg("metrics")
    /\ Len(new_data.rows) = 2
    /\ Len(db_pre) = 1
    /\ Len(db) = 2
    /\ results.new_products = 1
    /\ results.updated_records = 0
    /\ results.warnings = 1
    /\ Len(results.warning_messages) = 1

=============================================================================
